---------------------------- MODULE Spec2Model ----------------------------
(***************************************************************************)
(* A model of bm-dhcp-tap.py: the DHCP option scanner (_parse_options),    *)
(* the frame decoder (parse_dhcp_ack) and the capture loop (main).         *)
(*                                                                         *)
(* Bytes objects are sequences over 0..255.  Python indexes from 0 and     *)
(* TLA+ from 1: Byte(s, i) is Python's s[i].  Python str values are        *)
(* modelled as TLA+ strings for the address renderings and as sequences of *)
(* code points for the hostname (which may hold any code point, NUL        *)
(* included).                                                              *)
(***************************************************************************)
EXTENDS Integers, Sequences, FiniteSets, TLC

VARIABLES
    pc,          \* position of the process (main) or of the function under study
    frame,       \* the frame last returned by recvfrom / handed to the decoder
    result,      \* the value parse_dhcp_ack returned for it
    reads,       \* indices of `frame` the decoder read (decoder study only)
    logs,        \* the records handed to the logger, in order
    launches,    \* the subprocess.Popen calls made, in order
    received,    \* history: the frames recvfrom returned, in order
    recvErrors,  \* history: how many times recvfrom raised OSError
    hook,        \* environment: what HOOK_PATH names on disk
    syslogOn,    \* environment: SYSLOG_SERVER is set
    sock,        \* the capture socket: "none", "open", "bound", "closed"
    exit,        \* how the process ended
    payload,     \* option scanner study: the payload
    start,       \* option scanner study: the start offset
    scan,        \* option scanner study: the loop state of _parse_options
    stored       \* option scanner study: history of the options stored

vars == <<pc, frame, result, reads, logs, launches, received, recvErrors,
          hook, syslogOn, sock, exit, payload, start, scan, stored>>

Min(a, b) == IF a < b THEN a ELSE b

\* Python's s[i] for 0 <= i < len(s).
Byte(s, i) == s[i + 1]

\* Python's s[a:b] for 0 <= a, 0 <= b: a slice is clamped, it never raises.
Slice(s, a, b) == SubSeq(s, a + 1, Min(b, Len(s)))

\* The indices a slice s[a:b] copies.
SliceIdx(s, a, b) == {i \in a .. (Min(b, Len(s)) - 1) : TRUE}

-----------------------------------------------------------------------------
(* _parse_options                                                          *)

DHCP_MAGIC == <<99, 130, 83, 99>>

OPT_END == 255

OPT_PAD == 0

\* opts[code] = value: a later store of the same code overwrites.
DictSet(opts, code, value) ==
    [c \in DOMAIN opts \cup {code} |-> IF c = code THEN value ELSE opts[c]]

\* opts.get(code, default)
DictGet(opts, code, default) ==
    IF code \in DOMAIN opts THEN opts[code] ELSE default

\* A faulty variant: the test for the length byte left out.
LenByteMissingOff(i, n) == FALSE

\* if i + 1 >= n: break
LenByteMissing(i, n) == i + 1 >= n

\* A faulty variant: the test for the value bytes left out.
ValueOverrunsOff(i, length, n) == FALSE

\* if i + 2 + length > n: break
ValueOverruns(i, length, n) == i + 2 + length > n

\* opts = {}; i, n = start, len(payload)
ScanInit(st) ==
    [i |-> st, opts |-> <<>>, idx |-> {}, status |-> "scan", last |-> "init"]

\* One evaluation of the loop condition and, when it holds, of the loop body.
\* status: "scan" (next iteration), "done" (return opts), "IndexError".
\* idx collects the indices of payload read so far; last names the branch taken.
ScanStep(p, s) ==
    LET n == Len(p)
        i == s.i
    IN  IF ~(i < n) THEN [s EXCEPT !.status = "done", !.last = "exhausted"]
        ELSE
        LET code == Byte(p, i)
            r1   == s.idx \cup {i}
        IN  IF code = OPT_END
            THEN [s EXCEPT !.idx = r1, !.status = "done", !.last = "end"]
            ELSE IF code = OPT_PAD
                 THEN [s EXCEPT !.idx = r1, !.i = i + 1, !.last = "pad"]
            ELSE IF LenByteMissing(i, n)
                 THEN [s EXCEPT !.idx = r1, !.status = "done", !.last = "no_length"]
            ELSE IF ~(i + 1 < n)     \* payload[i + 1] out of range
                 THEN [s EXCEPT !.idx = r1 \cup {i + 1}, !.status = "IndexError",
                                 !.last = "no_length"]
            ELSE
            LET length == Byte(p, i + 1)
                r2     == r1 \cup {i + 1}
            IN  IF ValueOverruns(i, length, n)
                THEN [s EXCEPT !.idx = r2, !.status = "done", !.last = "overrun"]
                ELSE [s EXCEPT
                        !.opts = DictSet(s.opts, code, Slice(p, i + 2, i + 2 + length)),
                        !.idx  = r2 \cup SliceIdx(p, i + 2, i + 2 + length),
                        !.i    = i + 2 + length,
                        !.last = "store"]

RECURSIVE ScanRun(_, _)
ScanRun(p, s) == IF s.status = "scan" THEN ScanRun(p, ScanStep(p, s)) ELSE s

\* The whole call: the final loop state (opts is the returned table).
parse_options(p, st) == ScanRun(p, ScanInit(st))

-----------------------------------------------------------------------------
(* parse_dhcp_ack                                                          *)

IP_OFF == 14

ETH_IPV4 == 2048

IPPROTO_UDP == 17

BOOTP_MIN == 240

\* The value `None`, a returned triple, and an exception leaving the call.
NoneRet == [kind |-> "None"]

Triple(ip, mac, hostname) ==
    [kind |-> "triple", ip |-> ip, mac |-> mac, hostname |-> hostname]

Raised(exc) == [kind |-> "raise", exc |-> exc]

Out(ret, idx) == [ret |-> ret, idx |-> idx]

\* struct.unpack_from('!H', buf, off)[0]: big-endian, 16 bits.
unpack_H(buf, off) == 256 * Byte(buf, off) + Byte(buf, off + 1)

\* struct.unpack_from raises struct.error unless off + size <= len(buf).
CanUnpack(buf, off, size) == off + size <= Len(buf)

DecDigits == <<"0", "1", "2", "3", "4", "5", "6", "7", "8", "9">>

\* str(b) for a byte b.
Dec(b) ==
    IF b < 10 THEN DecDigits[b + 1]
    ELSE IF b < 100 THEN DecDigits[(b \div 10) + 1] \o DecDigits[(b % 10) + 1]
    ELSE DecDigits[(b \div 100) + 1] \o DecDigits[((b \div 10) % 10) + 1]
         \o DecDigits[(b % 10) + 1]

\* socket.inet_ntoa(b) for a 4-byte b.
inet_ntoa(b) == Dec(b[1]) \o "." \o Dec(b[2]) \o "." \o Dec(b[3]) \o "." \o Dec(b[4])

HexDigits == <<"0", "1", "2", "3", "4", "5", "6", "7", "8", "9",
               "a", "b", "c", "d", "e", "f">>

\* f'{b:02x}'
Hex02(b) == HexDigits[(b \div 16) + 1] \o HexDigits[(b % 16) + 1]

\* ':'.join(f'{b:02x}' for b in bs)
RECURSIVE JoinHex(_)
JoinHex(bs) ==
    IF Len(bs) = 0 THEN ""
    ELSE IF Len(bs) = 1 THEN Hex02(bs[1])
    ELSE Hex02(bs[1]) \o ":" \o JoinHex(Tail(bs))

\* U+FFFD, what errors='replace' puts for a byte that is not ASCII.
REPLACEMENT == 65533

\* bs.decode('ascii', errors='replace'), as code points.
DecodeAscii(bs) == [k \in 1 .. Len(bs) |-> IF bs[k] < 128 THEN bs[k] ELSE REPLACEMENT]

\* The str 'unknown', as code points.
UNKNOWN == <<117, 110, 107, 110, 111, 119, 110>>

\* A faulty variant: the length test before the ethertype left out.
FrameTooShortOff(f) == FALSE

\* if len(frame) < 14
FrameTooShort(f) == Len(f) < 14

\* if ethertype != 0x0800
NotIPv4(ethertype) == ethertype # ETH_IPV4

\* if proto != 17
NotUdp(proto) == proto # IPPROTO_UDP

\* if len(frame) < udp_off + 8
UdpTooShort(f, udp_off) == Len(f) < udp_off + 8

\* A faulty variant: `and` for `or`.
WrongPortsAnd(src_port, dst_port) == src_port # 67 /\ dst_port # 68

\* if src_port != 67 or dst_port != 68
WrongPorts(src_port, dst_port) == src_port # 67 \/ dst_port # 68

\* if len(dhcp) < 240
BootpTooShort(dhcp) == Len(dhcp) < BOOTP_MIN

\* if opts.get(53, b'\x00') != b'\x05'
NotAck(opts) == DictGet(opts, 53, <<0>>) # <<5>>

\* A faulty variant: ciaddr (offset 12) read for yiaddr.
YiaddrBytesShifted(dhcp) == Slice(dhcp, 12, 16)

\* dhcp[16:20]
YiaddrBytes(dhcp) == Slice(dhcp, 16, 20)

\* dhcp[28:34]
ChaddrBytes(dhcp) == Slice(dhcp, 28, 34)

\* opts[12].decode('ascii', errors='replace') if 12 in opts else 'unknown'
HostnameOf(opts) == IF 12 \in DOMAIN opts THEN DecodeAscii(opts[12]) ELSE UNKNOWN

\* The call parse_dhcp_ack(f): what it returns or raises (ret) and the indices
\* of the frame it read (idx).  An index or unpack outside the buffer raises,
\* as the Python runtime makes it.
Decode(f) ==
    IF FrameTooShort(f) THEN Out(NoneRet, {})
    ELSE IF ~CanUnpack(f, 12, 2) THEN Out(Raised("struct.error"), {12, 13})
    ELSE
    LET ethertype == unpack_H(f, 12)
        r1        == {12, 13}
    IN  IF NotIPv4(ethertype) THEN Out(NoneRet, r1)
        ELSE IF Len(f) < IP_OFF + 20 THEN Out(NoneRet, r1)
        ELSE
        LET ihl   == (Byte(f, IP_OFF) % 16) * 4
            proto == Byte(f, IP_OFF + 9)
            r2    == r1 \cup {IP_OFF, IP_OFF + 9}
        IN  IF NotUdp(proto) THEN Out(NoneRet, r2)
            ELSE
            LET udp_off == IP_OFF + ihl
                r3      == r2 \cup (udp_off .. udp_off + 3)
            IN  IF UdpTooShort(f, udp_off) THEN Out(NoneRet, r2)
                ELSE IF ~CanUnpack(f, udp_off, 4) THEN Out(Raised("struct.error"), r3)
                ELSE
                LET src_port == unpack_H(f, udp_off)
                    dst_port == unpack_H(f, udp_off + 2)
                IN  IF WrongPorts(src_port, dst_port) THEN Out(NoneRet, r3)
                    ELSE
                    LET dhcp_off == udp_off + 8
                        dhcp     == Slice(f, dhcp_off, Len(f))
                        r4       == r3 \cup SliceIdx(f, dhcp_off, Len(f))
                    IN  IF BootpTooShort(dhcp) THEN Out(NoneRet, r4)
                        ELSE IF Len(dhcp) = 0 THEN Out(Raised("IndexError"), r4)
                        ELSE IF Byte(dhcp, 0) # 2 THEN Out(NoneRet, r4)
                        ELSE IF Len(YiaddrBytes(dhcp)) # 4 THEN Out(Raised("OSError"), r4)
                        ELSE
                        LET yiaddr == inet_ntoa(YiaddrBytes(dhcp))
                            chaddr == JoinHex(ChaddrBytes(dhcp))
                        IN  IF Slice(dhcp, 236, 240) # DHCP_MAGIC THEN Out(NoneRet, r4)
                            ELSE
                            LET sc == parse_options(dhcp, 240)
                            IN  IF sc.status = "IndexError"
                                THEN Out(Raised("IndexError"), r4)
                                ELSE IF NotAck(sc.opts) THEN Out(NoneRet, r4)
                                ELSE Out(Triple(yiaddr, chaddr, HostnameOf(sc.opts)), r4)

parse_dhcp_ack(f) == Decode(f).ret

-----------------------------------------------------------------------------
(* Frames: the inputs the decoder and the loop are run on.                 *)

Be16(v) == <<v \div 256, v % 256>>

\* Whether (Python) index i falls in the field of bytes bs laid at offset off.
In(i, off, bs) == off <= i /\ i < off + Len(bs)

\* Byte i of the frame a field record describes: Ethernet, IPv4 with a header
\* of 4 * ihl bytes (the UDP header is laid where the IHL nibble says), UDP,
\* BOOTP and the options area.  Where a short IHL makes layers overlap, the
\* inner layer's byte is the one in the frame.
FieldByte(d, i) ==
    LET udp   == 14 + 4 * d.ihl
        bootp == udp + 8
    IN  IF In(i, bootp + 240, d.opts) THEN d.opts[i - (bootp + 240) + 1]
        ELSE IF In(i, bootp + 236, d.magic) THEN d.magic[i - (bootp + 236) + 1]
        ELSE IF In(i, bootp + 28, d.ch) THEN d.ch[i - (bootp + 28) + 1]
        ELSE IF In(i, bootp + 16, d.yi) THEN d.yi[i - (bootp + 16) + 1]
        ELSE IF i = bootp + 1 THEN d.htype
        ELSE IF i = bootp THEN d.op
        ELSE IF In(i, udp + 2, Be16(d.dport)) THEN Be16(d.dport)[i - (udp + 2) + 1]
        ELSE IF In(i, udp, Be16(d.sport)) THEN Be16(d.sport)[i - udp + 1]
        ELSE IF i = 23 THEN d.proto
        ELSE IF i = 14 THEN 64 + d.ihl
        ELSE IF In(i, 12, Be16(d.et)) THEN Be16(d.et)[i - 12 + 1]
        ELSE 0

\* The frame, cut to its first `cut` bytes.
MkFrame(d) ==
    LET full == 14 + 4 * d.ihl + 8 + 240 + Len(d.opts)
    IN  [k \in 1 .. Min(d.cut, full) |-> FieldByte(d, k - 1)]

FullLen(ihl, opts) == 14 + 4 * ihl + 8 + 240 + Len(opts)

NODE1 == <<110, 111, 100, 101, 49>>

\* Option areas: ACK alone; ACK with hostname (both orders); DISCOVER; none;
\* a two-byte and an empty option 53; option 53 twice; hostnames with a NUL,
\* with a non-ASCII byte, empty, cut short; END before the options; PADs.
OptionAreas ==
    { <<53, 1, 5, 255>>,
      <<53, 1, 5, 12, 5>> \o NODE1 \o <<255>>,
      <<12, 5>> \o NODE1 \o <<53, 1, 5, 255>>,
      <<53, 1, 1, 255>>,
      <<>>,
      <<53, 2, 5, 0, 255>>,
      <<53, 0, 255>>,
      <<53, 1, 1, 53, 1, 5, 255>>,
      <<53, 1, 5, 53, 1, 3, 255>>,
      <<53, 1, 5, 12, 3, 97, 0, 98, 255>>,
      <<53, 1, 5, 12, 2, 200, 65, 255>>,
      <<53, 1, 5, 12, 0, 255>>,
      <<0, 0, 53, 1, 5, 12, 9, 97, 98>>,
      <<53, 1, 5, 12>>,
      <<255, 53, 1, 5>>,
      <<12, 5>> \o NODE1 \o <<53, 1>> }

IHLs == 0 .. 15

BaseFields(ihl, opts) ==
    [et |-> 2048, ihl |-> ihl, proto |-> 17, sport |-> 67, dport |-> 68,
     op |-> 2, htype |-> 1, yi |-> <<10, 0, 0, 5>>,
     ch |-> <<170, 187, 204, 221, 238, 255>>, magic |-> DHCP_MAGIC,
     opts |-> opts, cut |-> FullLen(ihl, opts)]

\* One field changed at a time (and the well-formed frame itself).
Variants(b) ==
    { b,
      [b EXCEPT !.et = 2054], [b EXCEPT !.et = 34525], [b EXCEPT !.et = 2049],
      [b EXCEPT !.proto = 6],
      [b EXCEPT !.sport = 68, !.dport = 67], [b EXCEPT !.sport = 68],
      [b EXCEPT !.dport = 67], [b EXCEPT !.sport = 323],
      [b EXCEPT !.op = 1],
      [b EXCEPT !.magic = <<99, 130, 83, 98>>],
      [b EXCEPT !.htype = 17],
      [b EXCEPT !.yi = <<192, 168, 1, 250>>, !.ch = <<0, 1, 2, 10, 11, 12>>] }

\* Lengths around every length test of the decoder.
Cuts(b) ==
    LET udp == 14 + 4 * b.ihl
    IN  {0, 1, 12, 13, 14, 15, 33, 34, udp + 7, udp + 8, udp + 8 + 239,
         udp + 8 + 240, udp + 8 + 241, b.cut - 1}

\* The inputs built over the header lengths hs and the option areas os.
FieldRecords(hs, os) ==
    UNION { Variants(BaseFields(h, o)) \cup
            { [BaseFields(h, o) EXCEPT !.cut = c] : c \in Cuts(BaseFields(h, o)) }
            : <<h, o>> \in hs \X os }

Frames(hs, os) == { MkFrame(d) : d \in FieldRecords(hs, os) }

-----------------------------------------------------------------------------
(* The decoder on its own: one frame, one call.                            *)

Idle ==
    /\ logs = <<>>
    /\ launches = <<>>
    /\ received = <<>>
    /\ recvErrors = 0
    /\ hook = "file_exec"
    /\ syslogOn = FALSE
    /\ sock = "none"
    /\ exit = "none"

NoScan ==
    /\ payload = <<>>
    /\ start = 0
    /\ scan = ScanInit(0)
    /\ stored = <<>>

InitParse ==
    /\ pc = "call"
    /\ frame \in Frames(IHLs, OptionAreas)
    /\ result = NoneRet
    /\ reads = {}
    /\ Idle
    /\ NoScan

DecodeFrame ==
    /\ pc = "call"
    /\ LET o == Decode(frame)
       IN  /\ result' = o.ret
           /\ reads' = o.idx
    /\ pc' = "returned"
    /\ UNCHANGED <<frame, logs, launches, received, recvErrors, hook, syslogOn,
                   sock, exit, payload, start, scan, stored>>

NextParse == DecodeFrame

SpecParse == InitParse /\ [][NextParse]_vars

-----------------------------------------------------------------------------
(* The option scanner on its own: one payload, one start offset, the loop  *)
(* of _parse_options one iteration at a time.                              *)

MaxPayload == 4

MaxStart == 5

\* Bytes that are codes, lengths, PAD and END at once.
OptBytes == {0, 1, 2, 53, 255}

RECURSIVE SeqsUpTo(_, _)
SeqsUpTo(S, n) ==
    IF n = 0 THEN {<<>>}
    ELSE LET shorter == SeqsUpTo(S, n - 1)
         IN  shorter \cup {Append(q, b) : q \in {x \in shorter : Len(x) = n - 1}, b \in S}

IdleDecoder ==
    /\ frame = <<>>
    /\ result = NoneRet
    /\ reads = {}

InitOptions ==
    /\ pc = "scan"
    /\ payload \in SeqsUpTo(OptBytes, MaxPayload)
    /\ start \in 0 .. MaxStart
    /\ scan = ScanInit(start)
    /\ stored = <<>>
    /\ IdleDecoder
    /\ Idle

\* The loop is at its head and its next iteration takes branch b.
Takes(b) ==
    /\ pc = "scan"
    /\ scan.status = "scan"
    /\ ScanStep(payload, scan).last = b

\* The iteration itself.
Iterate ==
    /\ scan' = ScanStep(payload, scan)
    /\ stored' = IF scan'.last = "store"
                 THEN Append(stored, [code |-> Byte(payload, scan.i), pos |-> scan.i])
                 ELSE stored
    /\ pc' = IF scan'.status = "scan" THEN "scan" ELSE "returned"
    /\ UNCHANGED <<frame, result, reads, logs, launches, received, recvErrors,
                   hook, syslogOn, sock, exit, payload, start>>

\* while i < n: false
ScanExhausted ==
    /\ Takes("exhausted")
    /\ Iterate

\* code == 255: break
ScanEnd ==
    /\ Takes("end")
    /\ Iterate

\* code == 0: i += 1; continue
ScanPad ==
    /\ Takes("pad")
    /\ Iterate

\* i + 1 >= n: break (no length byte)
ScanNoLength ==
    /\ Takes("no_length")
    /\ Iterate

\* i + 2 + length > n: break (value cut short)
ScanOverrun ==
    /\ Takes("overrun")
    /\ Iterate

\* opts[code] = payload[i + 2: i + 2 + length]; i += 2 + length
ScanStore ==
    /\ Takes("store")
    /\ Iterate

NextOptions ==
    \/ ScanExhausted
    \/ ScanEnd
    \/ ScanPad
    \/ ScanNoLength
    \/ ScanOverrun
    \/ ScanStore

SpecOptions == InitOptions /\ [][NextOptions]_vars

-----------------------------------------------------------------------------
(* main: start-up, the capture socket, the receive loop.                   *)
(*                                                                         *)
(* pc: "start" (entry of main), "socket" (before socket.socket), "bind"    *)
(* (before sock.bind), "recv" (blocked in recvfrom), "parse" (a frame is   *)
(* in hand, before parse_dhcp_ack), "log" (a triple is in hand, before     *)
(* log.info), "popen" (before subprocess.Popen), "exited".                 *)
(* exit: "none", "returned" (main returned: status 0), "sys_exit_1", or    *)
(* "uncaught_<exception>" (a traceback on stderr, no log record, status    *)
(* not 0).  SIGINT is delivered from the moment the loop runs.             *)

MaxFrames == 3

MaxRecvErrors == 2

Running == {"recv", "parse", "log", "popen"}

\* What HOOK_PATH may name: nothing, a directory, a regular file without
\* the execute bit, an executable regular file.
HookKinds == {"missing", "directory", "file_noexec", "file_exec"}

\* A faulty variant: the start-up test left out.
IsFileAlways(h) == TRUE

\* os.path.isfile(HOOK_PATH)
IsFile(h) == h \in {"file_noexec", "file_exec"}

Info(event) == [level |-> "INFORMATION", event |-> event]

Error(event) == [level |-> "ERROR", event |-> event]

\* log.info('DHCP ACK  IP=%-15s  MAC=%s  HOST=%s', ip, mac, hostname)
AckRecord(r) ==
    [level |-> "INFORMATION", event |-> "DHCP ACK",
     ip |-> r.ip, mac |-> r.mac, hostname |-> r.hostname]

\* A faulty variant: ip and mac in each other's place.
HookArgsSwapped(r) == [ip |-> r.mac, mac |-> r.ip, hostname |-> r.hostname]

\* [HOOK_PATH, ip, mac, hostname]
HookArgs(r) == [ip |-> r.ip, mac |-> r.mac, hostname |-> r.hostname]

\* A faulty variant: no handler around Popen.
CatchesNone(exc) == FALSE

\* except OSError: which exceptions of Popen the handler catches.
Catches(exc) == exc = "OSError"

\* What subprocess.Popen can do with these arguments: an argument holding a
\* NUL raises ValueError before any fork; a hook without the execute bit
\* cannot be executed (PermissionError, an OSError); otherwise the child is
\* spawned, or the spawn fails with an OSError (the file removed since
\* start-up, no memory, no process slot).
PopenOutcomes(h, args) ==
    IF \E k \in 1 .. Len(args.hostname) : args.hostname[k] = 0 THEN {"ValueError"}
    ELSE IF h = "file_noexec" THEN {"OSError"}
    ELSE {"spawned", "OSError"}

\* The frames the loop is fed: an ARP frame, a DHCP reply that is no ACK
\* (option 53 = 1), the ACK of 10.0.0.5 / node1, an ACK without hostname for
\* another client, an ACK whose hostname holds a NUL.
LoopFrames ==
    LET ack == <<53, 1, 5, 255>>
    IN  { MkFrame([BaseFields(5, ack) EXCEPT !.et = 2054, !.cut = 42]),
          MkFrame(BaseFields(5, <<53, 1, 1, 255>>)),
          MkFrame(BaseFields(5, <<53, 1, 5, 12, 5>> \o NODE1 \o <<255>>)),
          MkFrame([BaseFields(5, ack) EXCEPT !.yi = <<192, 168, 1, 250>>,
                                             !.ch = <<0, 1, 2, 10, 11, 12>>]),
          MkFrame(BaseFields(5, <<53, 1, 5, 12, 3, 97, 0, 98, 255>>)) }

Init ==
    /\ pc = "start"
    /\ hook \in HookKinds
    /\ syslogOn \in BOOLEAN
    /\ frame = <<>>
    /\ result = NoneRet
    /\ reads = {}
    /\ logs = <<>>
    /\ launches = <<>>
    /\ received = <<>>
    /\ recvErrors = 0
    /\ sock = "none"
    /\ exit = "none"
    /\ NoScan

StartupLogs ==
    <<Info("starting")>> \o (IF syslogOn THEN <<Info("syslog enabled")>> ELSE <<>>)

\* log.info('BM DHCP tap starting ...'); the syslog line; the hook is a file.
StartOk ==
    /\ pc = "start"
    /\ IsFile(hook)
    /\ logs' = logs \o StartupLogs
    /\ pc' = "socket"
    /\ UNCHANGED <<frame, result, reads, launches, received, recvErrors, hook,
                   syslogOn, sock, exit, payload, start, scan, stored>>

\* ... the hook is no file: log.error('Hook script not found'); sys.exit(1).
StartNoHook ==
    /\ pc = "start"
    /\ ~IsFile(hook)
    /\ logs' = logs \o StartupLogs \o <<Error("hook not found")>>
    /\ pc' = "exited"
    /\ exit' = "sys_exit_1"
    /\ UNCHANGED <<frame, result, reads, launches, received, recvErrors, hook,
                   syslogOn, sock, payload, start, scan, stored>>

\* socket.socket(AF_PACKET, SOCK_RAW, ...) returns.
SocketOk ==
    /\ pc = "socket"
    /\ sock' = "open"
    /\ pc' = "bind"
    /\ UNCHANGED <<frame, result, reads, logs, launches, received, recvErrors,
                   hook, syslogOn, exit, payload, start, scan, stored>>

\* socket.socket raises (no CAP_NET_RAW): nothing catches it.
SocketFails ==
    /\ pc = "socket"
    /\ pc' = "exited"
    /\ exit' = "uncaught_socket_OSError"
    /\ UNCHANGED <<frame, result, reads, logs, launches, received, recvErrors,
                   hook, syslogOn, sock, payload, start, scan, stored>>

\* sock.bind((IFACE, 0)) returns; log.info('Listening on ...').
BindOk ==
    /\ pc = "bind"
    /\ sock' = "bound"
    /\ logs' = Append(logs, Info("listening"))
    /\ pc' = "recv"
    /\ UNCHANGED <<frame, result, reads, launches, received, recvErrors, hook,
                   syslogOn, exit, payload, start, scan, stored>>

\* sock.bind raises (no such interface): nothing catches it; the with
\* statement closes the socket.
BindFails ==
    /\ pc = "bind"
    /\ sock' = "closed"
    /\ pc' = "exited"
    /\ exit' = "uncaught_bind_OSError"
    /\ UNCHANGED <<frame, result, reads, logs, launches, received, recvErrors,
                   hook, syslogOn, payload, start, scan, stored>>

\* frame, _ = sock.recvfrom(65535) returns a frame.
RecvFrame ==
    /\ pc = "recv"
    /\ Len(received) < MaxFrames
    /\ \E f \in LoopFrames :
        /\ frame' = f
        /\ received' = Append(received, f)
    /\ pc' = "parse"
    /\ UNCHANGED <<result, reads, logs, launches, recvErrors, hook, syslogOn,
                   sock, exit, payload, start, scan, stored>>

\* A faulty variant: the handler falls through to the decoder with the frame
\* of the iteration before.
AfterRecvErrorFallsThrough == "parse"

\* continue: where the handler of a receive error sends the loop.
AfterRecvError == "recv"

\* recvfrom raises OSError: log.error('recvfrom error'); continue.
RecvError ==
    /\ pc = "recv"
    /\ recvErrors < MaxRecvErrors
    /\ recvErrors' = recvErrors + 1
    /\ logs' = Append(logs, Error("recvfrom error"))
    /\ pc' = AfterRecvError
    /\ UNCHANGED <<frame, result, reads, launches, received, hook, syslogOn,
                   sock, exit, payload, start, scan, stored>>

\* result = parse_dhcp_ack(frame); if result is None: continue
ParseRejected ==
    /\ pc = "parse"
    /\ parse_dhcp_ack(frame).kind = "None"
    /\ result' = parse_dhcp_ack(frame)
    /\ pc' = "recv"
    /\ UNCHANGED <<frame, reads, logs, launches, received, recvErrors, hook,
                   syslogOn, sock, exit, payload, start, scan, stored>>

\* result = parse_dhcp_ack(frame); ip, mac, hostname = result
ParseAccepted ==
    /\ pc = "parse"
    /\ parse_dhcp_ack(frame).kind = "triple"
    /\ result' = parse_dhcp_ack(frame)
    /\ pc' = "log"
    /\ UNCHANGED <<frame, reads, logs, launches, received, recvErrors, hook,
                   syslogOn, sock, exit, payload, start, scan, stored>>

\* log.info('DHCP ACK ...')
LogAck ==
    /\ pc = "log"
    /\ logs' = Append(logs, AckRecord(result))
    /\ pc' = "popen"
    /\ UNCHANGED <<frame, result, reads, launches, received, recvErrors, hook,
                   syslogOn, sock, exit, payload, start, scan, stored>>

Attempt(outcome) ==
    launches' = Append(launches, [args |-> HookArgs(result), outcome |-> outcome])

\* subprocess.Popen([HOOK_PATH, ip, mac, hostname], ...) spawns the child.
LaunchSpawned ==
    /\ pc = "popen"
    /\ "spawned" \in PopenOutcomes(hook, HookArgs(result))
    /\ Attempt("spawned")
    /\ pc' = "recv"
    /\ UNCHANGED <<frame, result, reads, logs, received, recvErrors, hook,
                   syslogOn, sock, exit, payload, start, scan, stored>>

\* Popen raises an exception the handler catches: log.error('Failed to exec
\* hook'), and the loop goes on.
LaunchCaught ==
    /\ pc = "popen"
    /\ \E exc \in PopenOutcomes(hook, HookArgs(result)) \ {"spawned"} :
        /\ Catches(exc)
        /\ Attempt(exc)
    /\ logs' = Append(logs, Error("failed to exec hook"))
    /\ pc' = "recv"
    /\ UNCHANGED <<frame, result, reads, received, recvErrors, hook, syslogOn,
                   sock, exit, payload, start, scan, stored>>

\* Popen raises an exception the handler does not catch: it leaves the loop,
\* the with statement closes the socket, main ends with a traceback.
LaunchUncaught ==
    /\ pc = "popen"
    /\ \E exc \in PopenOutcomes(hook, HookArgs(result)) \ {"spawned"} :
        /\ ~Catches(exc)
        /\ Attempt(exc)
        /\ exit' = IF exc = "ValueError" THEN "uncaught_ValueError"
                   ELSE "uncaught_popen_OSError"
    /\ sock' = "closed"
    /\ pc' = "exited"
    /\ UNCHANGED <<frame, result, reads, logs, received, recvErrors, hook,
                   syslogOn, payload, start, scan, stored>>

\* KeyboardInterrupt inside recvfrom: log.info('Interrupted'); break.
InterruptInRecv ==
    /\ pc = "recv"
    /\ logs' = Append(logs, Info("interrupted"))
    /\ sock' = "closed"
    /\ pc' = "exited"
    /\ exit' = "returned"
    /\ UNCHANGED <<frame, result, reads, launches, received, recvErrors, hook,
                   syslogOn, payload, start, scan, stored>>

\* KeyboardInterrupt outside the try statement (in parse_dhcp_ack, log.info
\* or Popen): nothing catches it.
InterruptElsewhere ==
    /\ pc \in Running \ {"recv"}
    /\ sock' = "closed"
    /\ pc' = "exited"
    /\ exit' = "uncaught_KeyboardInterrupt"
    /\ UNCHANGED <<frame, result, reads, logs, launches, received, recvErrors,
                   hook, syslogOn, payload, start, scan, stored>>

Next ==
    \/ StartOk
    \/ StartNoHook
    \/ SocketOk
    \/ SocketFails
    \/ BindOk
    \/ BindFails
    \/ RecvFrame
    \/ RecvError
    \/ ParseRejected
    \/ ParseAccepted
    \/ LogAck
    \/ LaunchSpawned
    \/ LaunchCaught
    \/ LaunchUncaught
    \/ InterruptInRecv
    \/ InterruptElsewhere

Spec == Init /\ [][Next]_vars

-----------------------------------------------------------------------------
(* What the claims say about a frame, read off the frame's bytes at        *)
(* absolute offsets.                                                       *)

\* The len bytes at offset off, or <<>> when the frame does not hold them all.
Field(f, off, len) ==
    IF off + len <= Len(f) THEN SubSeq(f, off + 1, off + len) ELSE <<>>

\* 14 + IHL * 4, the IHL being the low nibble of the byte at offset 14.
UdpOffsetOf(f) == 14 + 4 * (IF Len(f) > 14 THEN f[15] % 16 ELSE 0)

BootpOffsetOf(f) == UdpOffsetOf(f) + 8

\* The option table of the frame's BOOTP payload.
OptionTableOf(f) == parse_options(Slice(f, BootpOffsetOf(f), Len(f)), 240).opts

EthertypeWrong(f) == Field(f, 12, 2) # <<8, 0>>

ProtocolWrong(f) == Field(f, 23, 1) # <<17>>

PortsWrong(f) == Field(f, UdpOffsetOf(f), 4) # <<0, 67, 0, 68>>

OpWrong(f) == Field(f, BootpOffsetOf(f), 1) # <<2>>

CookieWrong(f) == Field(f, BootpOffsetOf(f) + 236, 4) # <<99, 130, 83, 99>>

MessageTypeWrong(f) ==
    LET t == OptionTableOf(f)
    IN  53 \notin DOMAIN t \/ t[53] # <<5>>

WellFormedAck(f) ==
    /\ ~EthertypeWrong(f)
    /\ ~ProtocolWrong(f)
    /\ ~PortsWrong(f)
    /\ ~OpWrong(f)
    /\ ~CookieWrong(f)
    /\ ~MessageTypeWrong(f)

\* C1: whenever the ethertype is not 0x0800, or the IP protocol is not 17, or
\* the UDP ports at 14 + IHL*4 are not (67, 68), or the BOOTP op is not 2, or
\* the magic cookie is not 63 82 53 63, or option 53 is absent or is not the
\* single byte 05, parse_dhcp_ack returns None.
C1_RejectsNonAck ==
    (pc = "returned" /\ ~WellFormedAck(frame)) => result = NoneRet

\* A DHCP DISCOVER-typed reply: every layer is right, option 53 is 01.
C1_Witness ==
    /\ pc = "returned"
    /\ ~EthertypeWrong(frame) /\ ~ProtocolWrong(frame) /\ ~PortsWrong(frame)
    /\ ~OpWrong(frame) /\ ~CookieWrong(frame)
    /\ DictGet(OptionTableOf(frame), 53, <<>>) = <<1>>
    /\ result = NoneRet

\* C2: parse_dhcp_ack is total: for every frame (every IHL nibble, every
\* length, the lengths below 14 included) the call returns None or a triple,
\* raises nothing, and reads only indices inside the frame; a frame shorter
\* than 14 bytes is rejected without a read.
C2_DecoderTotal ==
    /\ pc = "call" => parse_dhcp_ack(frame).kind \in {"None", "triple"}
    /\ pc = "returned" =>
        /\ result.kind \in {"None", "triple"}
        /\ reads \subseteq 0 .. (Len(frame) - 1)
        /\ Len(frame) < 14 => (result = NoneRet /\ reads = {})

\* A 13-byte frame was decoded.
C2_Witness ==
    /\ pc = "returned"
    /\ Len(frame) = 13
    /\ result = NoneRet

RECURSIVE Decimal(_)
Decimal(n) ==
    IF n < 10 THEN SubSeq(<<"0", "1", "2", "3", "4", "5", "6", "7", "8", "9">>, n + 1, n + 1)[1]
    ELSE Decimal(n \div 10) \o Decimal(n % 10)

LowerHex(n) ==
    CASE n < 10 -> Decimal(n)
      [] n = 10 -> "a" [] n = 11 -> "b" [] n = 12 -> "c"
      [] n = 13 -> "d" [] n = 14 -> "e" [] n = 15 -> "f"

\* C3: for a well-formed DHCPACK frame the call returns ip = the yiaddr bytes
\* at BOOTP offset 16..20 in dotted decimal, mac = the chaddr bytes at offset
\* 28..34 as lowercase colon-separated hex, hostname = the text of option 12
\* when the option is present and "unknown" when it is absent.
C3_AckFields ==
    (pc = "returned" /\ WellFormedAck(frame)) =>
        LET b  == BootpOffsetOf(frame)
            yi == Field(frame, b + 16, 4)
            ch == Field(frame, b + 28, 6)
            t  == OptionTableOf(frame)
        IN  /\ result.kind = "triple"
            /\ result.ip = Decimal(yi[1]) \o "." \o Decimal(yi[2]) \o "."
                           \o Decimal(yi[3]) \o "." \o Decimal(yi[4])
            /\ LET h(k) == LowerHex(ch[k] \div 16) \o LowerHex(ch[k] % 16)
               IN  result.mac = h(1) \o ":" \o h(2) \o ":" \o h(3) \o ":"
                                \o h(4) \o ":" \o h(5) \o ":" \o h(6)
            /\ 12 \notin DOMAIN t => result.hostname = <<117, 110, 107, 110, 111, 119, 110>>
            /\ 12 \in DOMAIN t =>
                /\ Len(result.hostname) = Len(t[12])
                /\ \A k \in 1 .. Len(t[12]) :
                     result.hostname[k] = IF t[12][k] < 128 THEN t[12][k] ELSE 65533
            /\ (yi = <<10, 0, 0, 5>> /\ ch = <<170, 187, 204, 221, 238, 255>>
                /\ 12 \in DOMAIN t /\ t[12] = <<110, 111, 100, 101, 49>>)
               => result = Triple("10.0.0.5", "aa:bb:cc:dd:ee:ff", <<110, 111, 100, 101, 49>>)

\* The round trip of 10.0.0.5, aa:bb:cc:dd:ee:ff, "node1".
C3_Witness ==
    /\ pc = "returned"
    /\ WellFormedAck(frame)
    /\ result = Triple("10.0.0.5", "aa:bb:cc:dd:ee:ff", <<110, 111, 100, 101, 49>>)

\* A stored option lies whole inside the payload: its code, its length byte
\* and the value bytes the length byte declares.
FullyParsed(e) ==
    /\ start <= e.pos
    /\ e.pos + 1 < Len(payload)
    /\ Byte(payload, e.pos) = e.code
    /\ e.pos + 2 + Byte(payload, e.pos + 1) <= Len(payload)

DeclaredValue(e) ==
    SubSeq(payload, e.pos + 3, e.pos + 2 + Byte(payload, e.pos + 1))

\* The table the stored options make, a later one of a code replacing an
\* earlier one.
TableOfStored ==
    [c \in {stored[k].code : k \in 1 .. Len(stored)} |->
        LET last == CHOOSE k \in 1 .. Len(stored) :
                        /\ stored[k].code = c
                        /\ \A j \in (k + 1) .. Len(stored) : stored[j].code # c
        IN  DeclaredValue(stored[last])]

\* The option at the loop's position has no length byte, or declares more
\* value bytes than the payload holds.
AtTruncatedOption ==
    /\ scan.status = "scan"
    /\ scan.i < Len(payload)
    /\ Byte(payload, scan.i) \notin {0, 255}
    /\ \/ scan.i + 1 >= Len(payload)
       \/ scan.i + 2 + Byte(payload, scan.i + 1) > Len(payload)

\* C4: for every payload and start offset _parse_options raises nothing and
\* reads only indices below len(payload); every iteration moves the index
\* forward, which stays within max(start, len(payload)), so the scan ends;
\* at an option whose length byte or declared value bytes run past the end
\* the scan stops, and the table is exactly the options fully parsed before.
C4_OptionsSafe ==
    /\ [](/\ scan.status \in {"scan", "done"}
          /\ scan.idx \subseteq 0 .. (Len(payload) - 1)
          /\ scan.i <= (IF start > Len(payload) THEN start ELSE Len(payload))
          /\ \A k \in 1 .. Len(stored) : FullyParsed(stored[k])
          /\ scan.opts = TableOfStored)
    /\ [][/\ (scan.status = "scan" /\ scan'.status = "scan") => scan'.i > scan.i
          /\ AtTruncatedOption => (scan'.status = "done" /\ scan'.opts = scan.opts)
         ]_vars

\* The scan stopped at an option whose value is cut short, after it had
\* stored an option.
C4_Witness ==
    /\ scan.status = "done"
    /\ scan.last = "overrun"
    /\ Len(stored) > 0
    /\ scan.opts = TableOfStored

-----------------------------------------------------------------------------
(* The capture loop.                                                       *)

\* What parse_dhcp_ack returns for each frame the loop is fed.
DecodedLoopFrames == [f \in LoopFrames |-> parse_dhcp_ack(f)]

\* The triples of the frames of fs that parse_dhcp_ack accepts, in order.
RECURSIVE AcceptedOf(_)
AcceptedOf(fs) ==
    IF Len(fs) = 0 THEN <<>>
    ELSE LET r == DecodedLoopFrames[Head(fs)]
         IN  (IF r.kind = "triple"
              THEN <<[ip |-> r.ip, mac |-> r.mac, hostname |-> r.hostname]>>
              ELSE <<>>) \o AcceptedOf(Tail(fs))

LaunchArgs == [k \in 1 .. Len(launches) |-> launches[k].args]

IsAckRecord(l) == l.event = "DHCP ACK"

AckLogged ==
    LET a == SelectSeq(logs, IsAckRecord)
    IN  [k \in 1 .. Len(a) |-> [ip |-> a[k].ip, mac |-> a[k].mac, hostname |-> a[k].hostname]]

FailedLaunches == {k \in 1 .. Len(launches) : launches[k].outcome # "spawned"}

IsPrefix(a, b) == Len(a) <= Len(b) /\ a = SubSeq(b, 1, Len(a))

\* C5: each time the loop is back at the receive, the hook launches made so
\* far are, in order, the triples of exactly the accepted frames among those
\* received, one launch per accepted frame, each with its own fields; the
\* DHCP ACK log lines are the same triples, and the log holds no line for a
\* rejected frame (only the start-up lines, one line per accepted frame, one
\* per failed launch, one per receive error).  In between, the launches lag
\* by at most the frame in hand.
C5_LaunchesMatchAccepted ==
    LET Matches(acc) ==
            /\ IsPrefix(LaunchArgs, acc)
            /\ Len(acc) <= Len(launches) + 1
            /\ pc = "recv" =>
                /\ LaunchArgs = acc
                /\ AckLogged = acc
                /\ Len(logs) = Len(StartupLogs) + 1 + recvErrors + Len(acc)
                               + Cardinality(FailedLaunches)
    IN  Matches(AcceptedOf(received))

\* An ARP frame, a DHCP reply with option 53 = 1 and a DHCPACK were received
\* in this order: one launch, with the third frame's fields.
C5_Witness ==
    /\ pc = "recv"
    /\ Len(received) = 3
    /\ Field(received[1], 12, 2) = <<8, 6>>
    /\ ~EthertypeWrong(received[2])
    /\ DictGet(OptionTableOf(received[2]), 53, <<>>) = <<1>>
    /\ WellFormedAck(received[3])
    /\ LaunchArgs = <<[ip |-> "10.0.0.5", mac |-> "aa:bb:cc:dd:ee:ff",
                       hostname |-> <<110, 111, 100, 101, 49>>]>>

HookNotFoundExit ==
    /\ pc = "exited"
    /\ exit = "sys_exit_1"
    /\ sock = "none"
    /\ received = <<>>
    /\ Len(logs) > 0
    /\ logs[Len(logs)] = [level |-> "ERROR", event |-> "hook not found"]

\* C6, as claimed: when the hook does not exist or is not invocable, main
\* logs an error and exits with status 1 without creating the socket or
\* entering the loop.
C6_Original ==
    (hook # "file_exec" /\ pc # "start") => HookNotFoundExit

\* C6, amended: when HOOK_PATH names no regular file (nothing, or a
\* directory), main logs an error and exits with status 1 without creating
\* the socket or entering the loop.
C6_MissingHookFatal ==
    (hook \in {"missing", "directory"} /\ pc # "start") => HookNotFoundExit

C6_Witness ==
    /\ hook = "missing"
    /\ HookNotFoundExit

\* C7, as claimed: no received frame ends the loop: the loop leaves Running
\* only by an interrupt.
C7_FrameNeverStopsLoop ==
    [][(pc \in Running /\ pc' = "exited")
        => exit' \in {"returned", "uncaught_KeyboardInterrupt"}]_vars

\* C8, as claimed: whenever the loop leaves Running it is by an interrupt that
\* logs the shutdown notice and lets main return.
C8_InterruptStopsCleanly ==
    [][(pc \in Running /\ pc' = "exited")
        => (exit' = "returned" /\ logs' = Append(logs, Info("interrupted")))]_vars

\* C9, as claimed: a failed bind is logged as an error before the process
\* exits with a status that is not 0, and the loop is never entered.
C9_BindFailureLogged ==
    exit = "uncaught_bind_OSError" =>
        /\ Len(logs) > 0
        /\ logs[Len(logs)].level = "ERROR"
        /\ received = <<>>

\* C10: a launch that fails with OSError is logged as an error, is one
\* attempt (no retry), leaves the loop running at the next receive; and with
\* failed launches behind it the loop still launches, for the frames received
\* since, exactly the accepted triples.
C10_LaunchFailureIsolated ==
    /\ [][(/\ pc = "popen"
           /\ Len(launches') > Len(launches)
           /\ launches'[Len(launches')].outcome = "OSError")
          => /\ logs' = Append(logs, [level |-> "ERROR", event |-> "failed to exec hook"])
             /\ Len(launches') = Len(launches) + 1
             /\ pc' = "recv"
             /\ exit' = "none"
             /\ sock' = "bound"]_vars
    /\ []((pc = "recv" /\ \E k \in 1 .. Len(launches) : launches[k].outcome = "OSError")
            => LaunchArgs = AcceptedOf(received))

\* A launch failed with OSError and the next accepted frame was launched.
C10_Witness ==
    /\ pc = "recv"
    /\ \E k \in 1 .. (Len(launches) - 1) :
        /\ launches[k].outcome = "OSError"
        /\ launches[k + 1].outcome = "spawned"
        /\ launches[k + 1].args # launches[k].args

\* C11: a receive error is logged as an error and leaves the loop Running at
\* the next receive, the socket bound, with no decode and no launch for that
\* iteration (result, frame, received frames and launches are as before);
\* this holds for every receive error, whatever number came before it.
C11_RecvErrorIsolated ==
    [][recvErrors' # recvErrors
        => /\ pc = "recv"
           /\ pc' = "recv"
           /\ recvErrors' = recvErrors + 1
           /\ logs' = Append(logs, [level |-> "ERROR", event |-> "recvfrom error"])
           /\ exit' = "none"
           /\ sock' = "bound"
           /\ result' = result
           /\ frame' = frame
           /\ received' = received
           /\ launches' = launches]_vars

\* Two receive errors in a row, then a frame was received, accepted and
\* launched.
C11_Witness ==
    /\ pc = "recv"
    /\ recvErrors >= 2
    /\ \E k \in 1 .. (Len(logs) - 2) :
        /\ logs[k].event = "recvfrom error"
        /\ logs[k + 1].event = "recvfrom error"
        /\ logs[k + 2].event = "DHCP ACK"
    /\ Len(launches) > 0
    /\ launches[Len(launches)].outcome = "spawned"

=============================================================================
